---- MODULE Spec2Model ----
(***************************************************************************)
(* The RSA learning demo's number-theory core (rsa-utils): isPrime, gcd,   *)
(* extendedGcd, modularInverse, modularExponentiation, eulerTotient, the   *)
(* text codec, generateRSAKeys, validateMessage, rsaEncrypt, rsaDecrypt.   *)
(*                                                                         *)
(* Every function of the core is pure, so each is an operator computed the *)
(* way the code computes it (loops and recursions become RECURSIVE         *)
(* operators that follow the code's iterations).  The specifications that  *)
(* run them:                                                               *)
(*   Spec            a caller invokes one primitive with arguments drawn   *)
(*                   from bounded sets; the state holds the call and what  *)
(*                   it returned (or that it threw);                       *)
(*   PipelineSpec    a caller picks p, q and a message, derives the        *)
(*                   keypair, encrypts the message and decrypts the result;*)
(*   SmallPrimesSpec generateRSAKeys applied to a pair of small integers;  *)
(*   DemoSpec        the RSADemo component: its state, the user's inputs   *)
(*                   and clicks, and the resumption of generateKeys;       *)
(*   DemoLiveSpec    DemoSpec with the delay of generateKeys ending.       *)
(*                                                                         *)
(* Numbers are JavaScript BigInt values: unbounded integers whose / and %  *)
(* truncate toward zero and throw a RangeError on a zero divisor.  Strings *)
(* are sequences of UTF-16 code units (0..65535).  Narration strings drop  *)
(* the emoji and write x, phi, !=, == for the source's non-ASCII symbols;  *)
(* the BigInt values interpolated into them are formatted by ToString.     *)
(***************************************************************************)
EXTENDS Integers, Sequences, FiniteSets, TLC

VARIABLES
    fn, args, ret,           \* Spec: the primitive called last, its arguments, its outcome
    argP, argQ, argMessage,  \* PipelineSpec: the caller's two integers and its message
    stage,                   \* PipelineSpec: how far the caller has got
    keygen, enc, dec,        \* PipelineSpec: what generateRSAKeys, rsaEncrypt, rsaDecrypt gave
    pText, qText, messageText,  \* DemoSpec: the state p, q, message (the texts of the fields)
    keyPair, encryptionResult, decryptionResult,  \* DemoSpec: the three results
    currentStep, isGenerating,                    \* DemoSpec: progress and the busy flag
    pending,                 \* DemoSpec: the generateKeys call suspended at its await
    encryptedFrom,           \* DemoSpec: the message the stored encryptionResult came from
    afterReset               \* DemoSpec: resetDemo ran and no input or click followed

demoVars == <<pText, qText, messageText, keyPair, encryptionResult, decryptionResult,
              currentStep, isGenerating, pending, encryptedFrom, afterReset>>

vars == <<fn, args, ret, argP, argQ, argMessage, stage, keygen, enc, dec, demoVars>>

primVars == <<fn, args, ret>>

pipeVars == <<argP, argQ, argMessage, stage, keygen, enc, dec>>

(***************************************************************************)
(* Bounds of the model.                                                    *)
(***************************************************************************)
\* primitive arguments range over -NegRange .. MaxArg
NegRange == 3
MaxArg == 12
\* isPrime is called on -NegRange .. MaxPrimeArg
MaxPrimeArg == 101
\* the pipeline's p and q range over 0 .. MaxP and the extra inputs below
MaxP == 7
\* messages have at most MaxLen code units
MaxLen == 2

(***************************************************************************)
(* BigInt arithmetic.                                                      *)
(***************************************************************************)
Abs(a) == IF a < 0 THEN -a ELSE a

Sign(a) == IF a < 0 THEN -1 ELSE 1

\* BigInt a % b for b # 0: the remainder has the sign of the dividend.
Rem(a, b) == Sign(a) * (Abs(a) % Abs(b))

\* BigInt a / b for b # 0: the quotient truncates toward zero.
Quot(a, b) == Sign(a) * Sign(b) * (Abs(a) \div Abs(b))

\* (a * b) mod m for a, b >= 0 and m > 0, with b taken in base-256 digits so
\* that no intermediate value leaves TLC's 32-bit integers
\* (exact for m < 2^22).
RECURSIVE MulModNat(_, _, _)
MulModNat(a, b, m) ==
    IF b < 256
    THEN ((a % m) * b) % m
    ELSE (MulModNat(a, b \div 256, m) * 256 + (a % m) * (b % 256)) % m

\* BigInt (a * b) % m for m # 0: the exact product's truncated remainder.
MulRem(a, b, m) == Sign(a) * Sign(b) * MulModNat(Abs(a), Abs(b), Abs(m))

(***************************************************************************)
(* Results: a nullable value, and a call's outcome.                        *)
(***************************************************************************)
Null == [null |-> TRUE]

NonNull(v) == [null |-> FALSE, value |-> v]

Return(v) == [kind |-> "return", value |-> v]

Throw(e) == [kind |-> "throw", error |-> e]

(***************************************************************************)
(* Number-theory primitives.                                               *)
(***************************************************************************)
\* for (let i = 5n; i * i <= n; i += 6n) { if (n % i === 0n || n % (i + 2n) === 0n) return false; }
\* At most `count` iterations of the loop, from i: 0 when an iteration
\* returns false, 1 when the loop condition ends the loop, and otherwise
\* the i of the iteration to run next.
RECURSIVE isPrimeIterations(_, _, _)
isPrimeIterations(i, n, count) ==
    IF i * i <= n
    THEN IF Rem(n, i) = 0 \/ Rem(n, i + 2) = 0
         THEN 0
         ELSE IF count = 1 THEN i + 6 ELSE isPrimeIterations(i + 6, n, count - 1)
    ELSE 1

\* The whole loop, and then return true: run 64 iterations at a time, which
\* keeps the recursion of the evaluation shallow for a 20-bit n.
RECURSIVE isPrimeLoop(_, _)
isPrimeLoop(i, n) ==
    LET r == isPrimeIterations(i, n, 64)
    IN  IF r = 0 THEN FALSE
        ELSE IF r = 1 THEN TRUE
        ELSE isPrimeLoop(r, n)

\* the mutant: the test n % 2n === 0n is missing
isPrime_NoEvenTest(n) ==
    IF n <= 1 THEN FALSE
    ELSE IF n <= 3 THEN TRUE
    ELSE IF Rem(n, 3) = 0 THEN FALSE
    ELSE isPrimeLoop(5, n)

\* the mutant: the loop tests i only, never i + 2
RECURSIVE isPrimeIterations_NoPlusTwo(_, _, _)
isPrimeIterations_NoPlusTwo(i, n, count) ==
    IF i * i <= n
    THEN IF Rem(n, i) = 0
         THEN 0
         ELSE IF count = 1 THEN i + 6
              ELSE isPrimeIterations_NoPlusTwo(i + 6, n, count - 1)
    ELSE 1

RECURSIVE isPrimeLoop_NoPlusTwo(_, _)
isPrimeLoop_NoPlusTwo(i, n) ==
    LET r == isPrimeIterations_NoPlusTwo(i, n, 64)
    IN  IF r = 0 THEN FALSE
        ELSE IF r = 1 THEN TRUE
        ELSE isPrimeLoop_NoPlusTwo(r, n)

isPrime_NoPlusTwo(n) ==
    IF n <= 1 THEN FALSE
    ELSE IF n <= 3 THEN TRUE
    ELSE IF Rem(n, 2) = 0 \/ Rem(n, 3) = 0 THEN FALSE
    ELSE isPrimeLoop_NoPlusTwo(5, n)

isPrime(n) ==
    IF n <= 1 THEN FALSE
    ELSE IF n <= 3 THEN TRUE
    ELSE IF Rem(n, 2) = 0 \/ Rem(n, 3) = 0 THEN FALSE
    ELSE isPrimeLoop(5, n)

\* while (b !== 0n) { [a, b] = [b, a % b]; } return a;
RECURSIVE gcdLoop(_, _)
gcdLoop(a, b) == IF b # 0 THEN gcdLoop(b, Rem(a, b)) ELSE a

\* the swap written as two assignments: a = b; b = a % b;
gcd_SequentialAssign(a, b) == IF b # 0 THEN b ELSE a

gcd(a, b) == gcdLoop(a, b)

\* the two coefficients returned in the other order
RECURSIVE extendedGcd_SwappedCoefficients(_, _)
extendedGcd_SwappedCoefficients(a, m) ==
    IF a = 0
    THEN <<m, 0, 1>>
    ELSE LET r  == extendedGcd_SwappedCoefficients(Rem(m, a), a)
             x1 == r[2]
             y1 == r[3]
             x  == y1 - Quot(m, a) * x1
             y  == x1
         IN  <<r[1], y, x>>

\* returns <<gcd, x, y>>
RECURSIVE extendedGcd(_, _)
extendedGcd(a, m) ==
    IF a = 0
    THEN <<m, 0, 1>>
    ELSE LET r  == extendedGcd(Rem(m, a), a)
             x1 == r[2]
             y1 == r[3]
             x  == y1 - Quot(m, a) * x1
             y  == x1
         IN  <<r[1], x, y>>

\* the mutant: the Bezout coefficient is returned as it is, not normalised
modularInverse_Raw(e, phi) ==
    LET r == extendedGcd(e, phi)
    IN  IF r[1] # 1 THEN Null ELSE NonNull(r[2])

\* the mutant: the gcd test is missing
modularInverse_NoGcdTest(e, phi) ==
    LET r == extendedGcd(e, phi)
    IN  IF phi = 0 THEN Null ELSE NonNull(Rem(Rem(r[2], phi) + phi, phi))

\* the value modularInverse returns when it does not throw
modularInverse(e, phi) ==
    LET r == extendedGcd(e, phi)
    IN  IF r[1] # 1 THEN Null ELSE NonNull(Rem(Rem(r[2], phi) + phi, phi))

\* x % phi throws a RangeError when phi is 0n
modularInverseThrows(e, phi) == extendedGcd(e, phi)[1] = 1 /\ phi = 0

\* while (exponent > 0n) { ... }; exponent >> 1n halves a positive exponent
RECURSIVE modExpLoop(_, _, _, _)
modExpLoop(result, base, exponent, modulus) ==
    IF exponent > 0
    THEN modExpLoop(IF Rem(exponent, 2) = 1
                    THEN MulRem(result, base, modulus)
                    ELSE result,
                    MulRem(base, base, modulus),
                    exponent \div 2,
                    modulus)
    ELSE result

\* the mutant: no special case for modulus 1
modularExponentiation_NoModulusOne(base, exponent, modulus) ==
    modExpLoop(1, Rem(base, modulus), exponent, modulus)

\* the value modularExponentiation returns when it does not throw
modularExponentiation(base, exponent, modulus) ==
    IF modulus = 1
    THEN 0
    ELSE modExpLoop(1, Rem(base, modulus), exponent, modulus)

\* base % modulus throws a RangeError when modulus is 0n
modularExponentiationThrows(base, exponent, modulus) == modulus = 0

\* the mutant: (p - 1) * (q + 1)
eulerTotient_PlusOne(p, q) == (p - 1) * (q + 1)

eulerTotient(p, q) == (p - 1) * (q - 1)

(***************************************************************************)
(* The codec.  A string is a sequence of UTF-16 code units.                *)
(***************************************************************************)
IsHighSurrogate(c) == 55296 <= c /\ c <= 56319

IsLowSurrogate(c) == 56320 <= c /\ c <= 57343

\* Array.from(message): the string iterator yields one string per code point,
\* so a high surrogate followed by a low surrogate comes out as ONE element
\* of two code units; every other code unit is an element of its own.
RECURSIVE ArrayFrom(_)
ArrayFrom(s) ==
    IF s = <<>>
    THEN <<>>
    ELSE IF Len(s) >= 2 /\ IsHighSurrogate(s[1]) /\ IsLowSurrogate(s[2])
         THEN <<SubSeq(s, 1, 2)>> \o ArrayFrom(SubSeq(s, 3, Len(s)))
         ELSE <<SubSeq(s, 1, 1)>> \o ArrayFrom(Tail(s))

\* char.charCodeAt(0): the first code unit of the element
stringToBigIntArray(message) ==
    LET chars == ArrayFrom(message)
    IN  [i \in 1..Len(chars) |-> chars[i][1]]

\* String.fromCharCode(Number(num)): the number is taken modulo 2^16
fromCharCode(num) == num % 65536

bigIntArrayToString(numbers) ==
    [i \in 1..Len(numbers) |-> fromCharCode(numbers[i])]

encryptCharacter(m, e, n) == modularExponentiation(m, e, n)

decryptCharacter(c, d, n) == modularExponentiation(c, d, n)

(***************************************************************************)
(* Text of the narration.                                                  *)
(***************************************************************************)
\* a code unit inside a narration string
CharText(c) == "#" \o ToString(c) \o ";"

RECURSIVE StringText(_)
StringText(s) == IF s = <<>> THEN "" ELSE CharText(s[1]) \o StringText(Tail(s))

\* array.join(', ')
RECURSIVE Join(_)
Join(parts) ==
    IF parts = <<>> THEN ""
    ELSE IF Len(parts) = 1 THEN parts[1]
    ELSE parts[1] \o ", " \o Join(Tail(parts))

(***************************************************************************)
(* Key derivation.                                                         *)
(***************************************************************************)
\* the mutant: the Fermat prime 2^4 + 1 in place of 2^16 + 1
E_F2 == 2^4 + 1

\* const e = 65537n
E == 65537

\* One run of generateRSAKeys(p, q): what it returns (result: null or the
\* keypair), and two observations of the run that the caller does not get:
\* the local array steps as it stands at the return, and which of the
\* locals n, phi, e, d the run had computed by then.
\* the same derivation without the push of the verification step
generateRSAKeysRun_NoVerification(p, q) ==
    LET n   == p * q
        phi == eulerTotient(p, q)
        e   == E
        d   == modularInverse(e, phi)
        s1  == <<"Prime validation: p = " \o ToString(p) \o ", q = " \o ToString(q)>>
        s2  == Append(s1, "Calculate n = p x q = " \o ToString(p) \o " x " \o ToString(q)
                          \o " = " \o ToString(n))
        s3  == Append(s2, "Calculate phi(n) = (p-1) x (q-1) = " \o ToString(p - 1) \o " x "
                          \o ToString(q - 1) \o " = " \o ToString(phi))
        s4  == Append(s3, "Choose e = " \o ToString(e) \o ", verify gcd(" \o ToString(e)
                          \o ", " \o ToString(phi) \o ") = 1")
        s5  == Append(s4, "Calculate d == e^-1 (mod phi(n)) = " \o ToString(d.value))
        s6  == Append(s5, "Verification: " \o ToString(e) \o " x " \o ToString(d.value)
                          \o " == 1 (mod " \o ToString(phi) \o ")")
    IN  IF ~isPrime(p) \/ ~isPrime(q)
        THEN [result   |-> Null,
              steps    |-> <<"Error: Both p and q must be prime numbers">>,
              computed |-> {}]
        ELSE IF gcd(e, phi) # 1
        THEN [result   |-> Null,
              steps    |-> Append(s3, "Error: gcd(" \o ToString(e) \o ", " \o ToString(phi)
                                      \o ") != 1. Choose different primes."),
              computed |-> {"n", "phi", "e"}]
        ELSE IF d.null \/ d.value = 0   \* if (!d): null and 0n are both falsy
        THEN [result   |-> Null,
              steps    |-> Append(s4, "Error: Cannot compute modular inverse of "
                                      \o ToString(e) \o " mod " \o ToString(phi)),
              computed |-> {"n", "phi", "e", "d"}]
        ELSE [result   |-> NonNull([p |-> p, q |-> q, n |-> n, phi |-> phi, e |-> e,
                                    d |-> d.value, steps |-> s5]),
              steps    |-> s5,
              computed |-> {"n", "phi", "e", "d"}]

generateRSAKeysRun(p, q) ==
    LET n   == p * q
        phi == eulerTotient(p, q)
        e   == E
        d   == modularInverse(e, phi)
        s1  == <<"Prime validation: p = " \o ToString(p) \o ", q = " \o ToString(q)>>
        s2  == Append(s1, "Calculate n = p x q = " \o ToString(p) \o " x " \o ToString(q)
                          \o " = " \o ToString(n))
        s3  == Append(s2, "Calculate phi(n) = (p-1) x (q-1) = " \o ToString(p - 1) \o " x "
                          \o ToString(q - 1) \o " = " \o ToString(phi))
        s4  == Append(s3, "Choose e = " \o ToString(e) \o ", verify gcd(" \o ToString(e)
                          \o ", " \o ToString(phi) \o ") = 1")
        s5  == Append(s4, "Calculate d == e^-1 (mod phi(n)) = " \o ToString(d.value))
        s6  == Append(s5, "Verification: " \o ToString(e) \o " x " \o ToString(d.value)
                          \o " == 1 (mod " \o ToString(phi) \o ")")
    IN  IF ~isPrime(p) \/ ~isPrime(q)
        THEN [result   |-> Null,
              steps    |-> <<"Error: Both p and q must be prime numbers">>,
              computed |-> {}]
        ELSE IF gcd(e, phi) # 1
        THEN [result   |-> Null,
              steps    |-> Append(s3, "Error: gcd(" \o ToString(e) \o ", " \o ToString(phi)
                                      \o ") != 1. Choose different primes."),
              computed |-> {"n", "phi", "e"}]
        ELSE IF d.null \/ d.value = 0   \* if (!d): null and 0n are both falsy
        THEN [result   |-> Null,
              steps    |-> Append(s4, "Error: Cannot compute modular inverse of "
                                      \o ToString(e) \o " mod " \o ToString(phi)),
              computed |-> {"n", "phi", "e", "d"}]
        ELSE [result   |-> NonNull([p |-> p, q |-> q, n |-> n, phi |-> phi, e |-> e,
                                    d |-> d.value, steps |-> s6]),
              steps    |-> s6,
              computed |-> {"n", "phi", "e", "d"}]

\* what the caller gets: RSAKeyPair | null
generateRSAKeys(p, q) == generateRSAKeysRun(p, q).result

\* the narration a caller can read from the return value: the steps field of
\* the keypair, and nothing when the return value is null
deliveredSteps(result) == IF result.null THEN <<>> ELSE result.value.steps

\* which of the three early returns a failed run took
failureReason(run) ==
    IF run.computed = {} THEN "NotPrime"
    ELSE IF run.computed = {"n", "phi", "e"} THEN "NonCoprimeExponent"
    ELSE "NoModularInverse"

(***************************************************************************)
(* Validation, encryption, decryption.                                     *)
(***************************************************************************)
\* the comparison written as code <= n
validateMessage_LessOrEqual(message, n) ==
    LET charCodes == stringToBigIntArray(message)
    IN  \A i \in 1..Len(charCodes) : charCodes[i] <= n

validateMessage(message, n) ==
    LET charCodes == stringToBigIntArray(message)
    IN  \A i \in 1..Len(charCodes) : charCodes[i] < n

\* rsaEncrypt rejecting a message that validateMessage rejects
rsaEncryptThrows_WhenInvalid(message, e, n) == ~validateMessage(message, n)

\* rsaEncrypt throws where modularExponentiation does: at the first character
rsaEncryptThrows(message, e, n) ==
    \E i \in 1..Len(stringToBigIntArray(message)) :
        modularExponentiationThrows(stringToBigIntArray(message)[i], e, n)

\* the value rsaEncrypt returns when it does not throw
rsaEncrypt(message, e, n) ==
    LET plainNumbers == stringToBigIntArray(message)
        \* message.split('') has one entry per code unit; plainNumbers[i] is
        \* undefined past the end of plainNumbers
        pairs == [i \in 1..Len(message) |->
                     "'" \o CharText(message[i]) \o "' -> "
                     \o (IF i <= Len(plainNumbers)
                         THEN ToString(plainNumbers[i])
                         ELSE "undefined")]
        ciphertext == [i \in 1..Len(plainNumbers) |->
                          encryptCharacter(plainNumbers[i], e, n)]
        lines == [i \in 1..Len(plainNumbers) |->
                     "Encrypt '" \o CharText(message[i]) \o "': "
                     \o ToString(plainNumbers[i]) \o "^" \o ToString(e) \o " mod "
                     \o ToString(n) \o " = " \o ToString(ciphertext[i])]
    IN  [ciphertext |-> ciphertext,
         steps |-> <<"Convert message \"" \o StringText(message) \o "\" to numbers:",
                     "   " \o Join(pairs)>> \o lines]

rsaDecryptThrows(ciphertext, d, n) ==
    \E i \in 1..Len(ciphertext) : modularExponentiationThrows(ciphertext[i], d, n)

\* the value rsaDecrypt returns when it does not throw
rsaDecrypt(ciphertext, d, n) ==
    LET decryptedNumbers == [i \in 1..Len(ciphertext) |->
                                decryptCharacter(ciphertext[i], d, n)]
        lines == [i \in 1..Len(ciphertext) |->
                     "Decrypt " \o ToString(ciphertext[i]) \o ": "
                     \o ToString(ciphertext[i]) \o "^" \o ToString(d) \o " mod "
                     \o ToString(n) \o " = " \o ToString(decryptedNumbers[i]) \o " -> '"
                     \o CharText(fromCharCode(decryptedNumbers[i])) \o "'"]
        decrypted == bigIntArrayToString(decryptedNumbers)
    IN  [decrypted |-> decrypted,
         steps |-> Append(lines, "Reconstructed message: \"" \o StringText(decrypted) \o "\"")]

(***************************************************************************)
(* Spec: a caller invokes one primitive; the state is the last call.       *)
(***************************************************************************)
Args == (-NegRange)..MaxArg

PrimeArgs == (-NegRange)..MaxPrimeArg

\* the pipeline's variables before anything ran
NotRun == [result |-> Null, steps |-> <<>>, computed |-> {}]

\* the useState initial values of RSADemo, no call suspended
DemoIdle ==
    /\ pText = <<>>
    /\ qText = <<>>
    /\ messageText = <<>>
    /\ keyPair = Null
    /\ encryptionResult = Null
    /\ decryptionResult = Null
    /\ currentStep = "input"
    /\ isGenerating = FALSE
    /\ pending = Null
    /\ encryptedFrom = <<>>
    /\ afterReset = FALSE

PipelineIdle ==
    /\ argP = 0
    /\ argQ = 0
    /\ argMessage = <<>>
    /\ stage = "input"
    /\ keygen = NotRun
    /\ enc = Null
    /\ dec = Null

PrimitivesIdle ==
    /\ fn = "none"
    /\ args = <<>>
    /\ ret = Null

Init == PrimitivesIdle /\ PipelineIdle /\ DemoIdle

CallIsPrime ==
    \E n \in PrimeArgs :
        /\ fn = "none"
        /\ fn' = "isPrime"
        /\ args' = <<n>>
        /\ ret' = Return(isPrime(n))
        /\ UNCHANGED <<pipeVars, demoVars>>

CallGcd ==
    \E a \in Args, b \in Args :
        /\ fn = "none"
        /\ fn' = "gcd"
        /\ args' = <<a, b>>
        /\ ret' = Return(gcd(a, b))
        /\ UNCHANGED <<pipeVars, demoVars>>

CallExtendedGcd ==
    \E a \in Args, m \in Args :
        /\ fn = "none"
        /\ fn' = "extendedGcd"
        /\ args' = <<a, m>>
        /\ ret' = Return(extendedGcd(a, m))
        /\ UNCHANGED <<pipeVars, demoVars>>

CallModularInverse ==
    \E e \in Args, phi \in Args :
        /\ fn = "none"
        /\ fn' = "modularInverse"
        /\ args' = <<e, phi>>
        /\ ret' = IF modularInverseThrows(e, phi)
                  THEN Throw("RangeError")
                  ELSE Return(modularInverse(e, phi))
        /\ UNCHANGED <<pipeVars, demoVars>>

CallModularExponentiation ==
    \E base \in Args, exponent \in Args, modulus \in Args :
        /\ fn = "none"
        /\ fn' = "modularExponentiation"
        /\ args' = <<base, exponent, modulus>>
        /\ ret' = IF modularExponentiationThrows(base, exponent, modulus)
                  THEN Throw("RangeError")
                  ELSE Return(modularExponentiation(base, exponent, modulus))
        /\ UNCHANGED <<pipeVars, demoVars>>

\* 'H', 'i', a control character below the small moduli, and the two code
\* units of U+1F600
Alphabet == {5, 72, 105, 55357, 56832}

Messages == UNION {[1..k -> Alphabet] : k \in 0..MaxLen}

\* the strings given to the codec: the first and the last code unit as well
CodecStrings == UNION {[1..k -> Alphabet \cup {0, 65535}] : k \in 0..MaxLen}

\* moduli: the small range, 11 * 13 and 239 * 241
ModulusArgs == Args \cup {143, 57599}

\* exponents: 0, two small ones, d of 11 * 13, and e
ExponentArgs == {0, 1, 3, 113, 65537}

\* ciphertexts: sequences of values that rsaEncrypt gives under n = 143
Ciphertexts == UNION {[1..k -> {0, 5, 63, 118}] : k \in 0..MaxLen}

CallStringToBigIntArray ==
    \E message \in CodecStrings :
        /\ fn = "none"
        /\ fn' = "stringToBigIntArray"
        /\ args' = <<message>>
        /\ ret' = Return(stringToBigIntArray(message))
        /\ UNCHANGED <<pipeVars, demoVars>>

CallValidateMessage ==
    \E message \in Messages, n \in ModulusArgs :
        /\ fn = "none"
        /\ fn' = "validateMessage"
        /\ args' = <<message, n>>
        /\ ret' = Return(validateMessage(message, n))
        /\ UNCHANGED <<pipeVars, demoVars>>

CallRsaEncrypt ==
    \E message \in Messages, e \in ExponentArgs, n \in ModulusArgs :
        /\ fn = "none"
        /\ fn' = "rsaEncrypt"
        /\ args' = <<message, e, n>>
        /\ ret' = IF rsaEncryptThrows(message, e, n)
                  THEN Throw("RangeError")
                  ELSE Return(rsaEncrypt(message, e, n))
        /\ UNCHANGED <<pipeVars, demoVars>>

CallRsaDecrypt ==
    \E ciphertext \in Ciphertexts, d \in ExponentArgs, n \in ModulusArgs :
        /\ fn = "none"
        /\ fn' = "rsaDecrypt"
        /\ args' = <<ciphertext, d, n>>
        /\ ret' = IF rsaDecryptThrows(ciphertext, d, n)
                  THEN Throw("RangeError")
                  ELSE Return(rsaDecrypt(ciphertext, d, n))
        /\ UNCHANGED <<pipeVars, demoVars>>

Next ==
    \/ CallIsPrime
    \/ CallGcd
    \/ CallExtendedGcd
    \/ CallModularInverse
    \/ CallModularExponentiation
    \/ CallStringToBigIntArray
    \/ CallValidateMessage
    \/ CallRsaEncrypt
    \/ CallRsaDecrypt

Spec == Init /\ [][Next]_vars

(***************************************************************************)
(* PipelineSpec: derive the keypair, encrypt the message, decrypt it.      *)
(***************************************************************************)
\* 11, 13: the worked example; 239, 241: a modulus above the surrogate
\* range; 917519 = 14 * 65537 + 1: the smallest prime p with 65537 | p - 1
ExtraInputs == {11, 13, 239, 241, 917519}

PInputs == ((-NegRange)..MaxP) \cup ExtraInputs

\* TLC's integers hold p * q for at most one input above 2^16
PipelineInit ==
    /\ PrimitivesIdle
    /\ DemoIdle
    /\ argP \in PInputs
    /\ argQ \in PInputs
    /\ ~(argP > 65536 /\ argQ > 65536)
    /\ argMessage \in Messages
    /\ stage = "input"
    /\ keygen = NotRun
    /\ enc = Null
    /\ dec = Null

\* const keys = generateRSAKeys(p, q)
DeriveKeys ==
    /\ stage = "input"
    /\ keygen' = generateRSAKeysRun(argP, argQ)
    /\ stage' = IF keygen'.result.null THEN "failed" ELSE "keys"
    /\ UNCHANGED <<argP, argQ, argMessage, enc, dec, primVars, demoVars>>

\* const result = rsaEncrypt(message, keys.e, keys.n)
Encrypt ==
    /\ stage = "keys"
    /\ LET keys == keygen.result.value
       IN  enc' = IF rsaEncryptThrows(argMessage, keys.e, keys.n)
                  THEN Throw("RangeError")
                  ELSE Return(rsaEncrypt(argMessage, keys.e, keys.n))
    /\ stage' = IF enc'.kind = "throw" THEN "failed" ELSE "encrypted"
    /\ UNCHANGED <<argP, argQ, argMessage, keygen, dec, primVars, demoVars>>

\* const result = rsaDecrypt(encrypted.ciphertext, keys.d, keys.n)
Decrypt ==
    /\ stage = "encrypted"
    /\ LET keys == keygen.result.value
           ciphertext == enc.value.ciphertext
       IN  dec' = IF rsaDecryptThrows(ciphertext, keys.d, keys.n)
                  THEN Throw("RangeError")
                  ELSE Return(rsaDecrypt(ciphertext, keys.d, keys.n))
    /\ stage' = IF dec'.kind = "throw" THEN "failed" ELSE "decrypted"
    /\ UNCHANGED <<argP, argQ, argMessage, keygen, enc, primVars, demoVars>>

PipelineNext ==
    \/ DeriveKeys
    \/ Encrypt
    \/ Decrypt

PipelineSpec == PipelineInit /\ [][PipelineNext]_vars

\* the table of suggestPrimes
primes == <<11, 13, 17, 19, 23, 29, 31, 37, 41, 43, 47>>

\* every integer from 1 to the last prime of the table, and the twin primes
\* 239, 241, whose (p-1)(q-1) = 57120 is the largest below 65537 here
SmallInputs == (1..primes[Len(primes)]) \cup {239, 241}

SmallPrimesInit ==
    /\ PrimitivesIdle
    /\ DemoIdle
    /\ argP \in SmallInputs
    /\ argQ \in SmallInputs
    /\ argMessage = <<>>
    /\ stage = "input"
    /\ keygen = NotRun
    /\ enc = Null
    /\ dec = Null

\* generateRSAKeys applied once to a pair of small integers
SmallPrimesSpec == SmallPrimesInit /\ [][DeriveKeys]_vars

(***************************************************************************)
(* DemoSpec: the RSADemo component. The state is the component's useState  *)
(* values (p, q, message are named pText, qText, messageText here); the    *)
(* steps are the user's inputs and clicks, each handler run to its end or  *)
(* to its await, and the resumption of generateKeys after its delay.       *)
(* A number field holds a text of decimal digits, a sequence over 0..9.    *)
(***************************************************************************)
\* the entries of the table that suggestPrimes draws here: 11 and 13
SuggestIndex == {1, 2}

\* BigInt(text) for a text of decimal digits; BigInt('') is 0n
RECURSIVE BigIntOf(_)
BigIntOf(text) ==
    IF text = <<>>
    THEN 0
    ELSE 10 * BigIntOf(SubSeq(text, 1, Len(text) - 1)) + text[Len(text)]

\* n.toString() for n >= 0
RECURSIVE numberToString(_)
numberToString(n) ==
    IF n < 10 THEN <<n>> ELSE numberToString(n \div 10) \o <<n % 10>>

\* text || '0'
orZero(text) == IF text = <<>> THEN <<0>> ELSE text

\* the texts typed into the field of p: 3, 11, 917519
PTexts == {<<3>>, <<1, 1>>, <<9, 1, 7, 5, 1, 9>>}

\* the texts typed into the field of q: 4, 11
QTexts == {<<4>>, <<1, 1>>}

\* the texts typed into the message field: "!", "H"
MessageTexts == {<<33>>, <<72>>}

validatePrimes(pt, qt) ==
    LET pBigInt == BigIntOf(orZero(pt))
        qBigInt == BigIntOf(orZero(qt))
    IN  isPrime(pBigInt) /\ isPrime(qBigInt) /\ pBigInt # qBigInt

\* the resumed call reading the state of the fields at the time it resumes
delayedRead_Current(captured, current) == current

\* p and q after the await are the constants of the render whose handler was
\* clicked, not the state at the time the call resumes
delayedRead(captured, current) == captured

DemoInit == PrimitivesIdle /\ PipelineIdle /\ DemoIdle

\* onChange of the field of p
setP ==
    \E text \in PTexts :
        /\ pText' = text
        /\ afterReset' = FALSE
        /\ UNCHANGED <<qText, messageText, keyPair, encryptionResult, decryptionResult,
                       currentStep, isGenerating, pending, encryptedFrom,
                       primVars, pipeVars>>

\* onChange of the field of q
setQ ==
    \E text \in QTexts :
        /\ qText' = text
        /\ afterReset' = FALSE
        /\ UNCHANGED <<pText, messageText, keyPair, encryptionResult, decryptionResult,
                       currentStep, isGenerating, pending, encryptedFrom,
                       primVars, pipeVars>>

\* onChange of the message field, rendered while keyPair is set
setMessage ==
    \E text \in MessageTexts :
        /\ ~keyPair.null
        /\ messageText' = text
        /\ afterReset' = FALSE
        /\ UNCHANGED <<pText, qText, keyPair, encryptionResult, decryptionResult,
                       currentStep, isGenerating, pending, encryptedFrom,
                       primVars, pipeVars>>

suggestPrimes ==
    \E i \in SuggestIndex, j \in SuggestIndex :
        /\ primes[i] # primes[j]
        /\ pText' = numberToString(primes[i])
        /\ qText' = numberToString(primes[j])
        /\ afterReset' = FALSE
        /\ UNCHANGED <<messageText, keyPair, encryptionResult, decryptionResult,
                       currentStep, isGenerating, pending, encryptedFrom,
                       primVars, pipeVars>>

\* a click on 'Generate RSA Keys' (disabled while a field is empty or
\* isGenerating), up to the await
generateKeys ==
    /\ pText # <<>> /\ qText # <<>> /\ ~isGenerating
    /\ afterReset' = FALSE
    /\ IF validatePrimes(pText, qText)
       THEN /\ isGenerating' = TRUE
            /\ pending' = NonNull([p |-> pText, q |-> qText])
       ELSE UNCHANGED <<isGenerating, pending>>
    /\ UNCHANGED <<pText, qText, messageText, keyPair, encryptionResult,
                   decryptionResult, currentStep, encryptedFrom, primVars, pipeVars>>

\* generateKeys returning from its failure branch, before setIsGenerating(false)
generateKeysResume_ReturnOnNull ==
    /\ ~pending.null
    /\ LET pBigInt == BigIntOf(delayedRead(pending.value.p, pText))
           qBigInt == BigIntOf(delayedRead(pending.value.q, qText))
           keys    == generateRSAKeys(pBigInt, qBigInt)
       IN  IF ~keys.null
           THEN keyPair' = keys /\ currentStep' = "keys" /\ isGenerating' = FALSE
           ELSE UNCHANGED <<keyPair, currentStep, isGenerating>>
    /\ pending' = Null
    /\ UNCHANGED <<pText, qText, messageText, encryptionResult, decryptionResult,
                   encryptedFrom, afterReset, primVars, pipeVars>>

\* generateKeys from the end of its delay to its end
generateKeysResume ==
    /\ ~pending.null
    /\ LET pBigInt == BigIntOf(delayedRead(pending.value.p, pText))
           qBigInt == BigIntOf(delayedRead(pending.value.q, qText))
           keys    == generateRSAKeys(pBigInt, qBigInt)
       IN  IF ~keys.null
           THEN keyPair' = keys /\ currentStep' = "keys"
           ELSE UNCHANGED <<keyPair, currentStep>>
    /\ isGenerating' = FALSE
    /\ pending' = Null
    /\ UNCHANGED <<pText, qText, messageText, encryptionResult, decryptionResult,
                   encryptedFrom, afterReset, primVars, pipeVars>>

\* a click on 'Encrypt Message' (rendered while keyPair is set, disabled
\* while the message is empty)
encryptMessage ==
    /\ ~keyPair.null /\ messageText # <<>>
    /\ afterReset' = FALSE
    /\ IF validateMessage(messageText, keyPair.value.n)
       THEN /\ encryptionResult' =
                   NonNull(rsaEncrypt(messageText, keyPair.value.e, keyPair.value.n))
            /\ currentStep' = "encrypt"
            /\ encryptedFrom' = messageText
       ELSE UNCHANGED <<encryptionResult, currentStep, encryptedFrom>>
    /\ UNCHANGED <<pText, qText, messageText, keyPair, decryptionResult,
                   isGenerating, pending, primVars, pipeVars>>

\* a click on 'Decrypt Message' (rendered while encryptionResult is set)
decryptMessage ==
    /\ ~encryptionResult.null
    /\ afterReset' = FALSE
    /\ IF ~keyPair.null
       THEN /\ decryptionResult' =
                   NonNull(rsaDecrypt(encryptionResult.value.ciphertext,
                                      keyPair.value.d, keyPair.value.n))
            /\ currentStep' = "complete"
       ELSE UNCHANGED <<decryptionResult, currentStep>>
    /\ UNCHANGED <<pText, qText, messageText, keyPair, encryptionResult,
                   isGenerating, pending, encryptedFrom, primVars, pipeVars>>

\* the seven setters of resetDemo, keeping currentStep
resetDemo_KeepsStep ==
    /\ ~decryptionResult.null
    /\ pText' = <<>>
    /\ qText' = <<>>
    /\ messageText' = <<>>
    /\ keyPair' = Null
    /\ encryptionResult' = Null
    /\ decryptionResult' = Null
    /\ encryptedFrom' = <<>>
    /\ afterReset' = TRUE
    /\ UNCHANGED <<currentStep, isGenerating, pending, primVars, pipeVars>>

\* a click on 'Start New Demo' (rendered while decryptionResult is set)
resetDemo ==
    /\ ~decryptionResult.null
    /\ pText' = <<>>
    /\ qText' = <<>>
    /\ messageText' = <<>>
    /\ keyPair' = Null
    /\ encryptionResult' = Null
    /\ decryptionResult' = Null
    /\ currentStep' = "input"
    /\ encryptedFrom' = <<>>
    /\ afterReset' = TRUE
    /\ UNCHANGED <<isGenerating, pending, primVars, pipeVars>>

DemoNext ==
    \/ setP
    \/ setQ
    \/ setMessage
    \/ suggestPrimes
    \/ generateKeys
    \/ generateKeysResume
    \/ encryptMessage
    \/ decryptMessage
    \/ resetDemo

DemoSpec == DemoInit /\ [][DemoNext]_vars

\* the suspended call is suspended no more: in DemoNext, exactly the
\* generateKeysResume steps
resumes == ~pending.null /\ pending' = Null

\* the timer of the delay fires: a suspended call is resumed
DemoLiveSpec == DemoSpec /\ WF_pending(resumes)

(***************************************************************************)
(* Reference definitions, independent of the code.                         *)
(***************************************************************************)
Min(a, b) == IF a <= b THEN a ELSE b

Max(a, b) == IF a >= b THEN a ELSE b

\* n is a prime number: n >= 2 and no d with 1 < d < n divides n
IsPrimeRef(n) == n >= 2 /\ \A d \in 2..(n - 1) : n % d # 0

\* The same for n < 2^20, where a composite n has a divisor below 2^10.
IsSmallPrimeRef(n) == n >= 2 /\ \A d \in 2..Min(n - 1, 1023) : n % d # 0

\* the greatest common divisor of a, b >= 0 (0 for a = b = 0)
GcdRef(a, b) ==
    IF a = 0 /\ b = 0
    THEN 0
    ELSE CHOOSE g \in 1..Max(a, b) :
            /\ a % g = 0 /\ b % g = 0
            /\ \A d \in 1..Max(a, b) : (a % d = 0 /\ b % d = 0) => d <= g

\* a, b >= 1 have no common divisor above 1
CoprimeRef(a, b) == \A d \in 2..Min(a, b) : a % d # 0 \/ b % d # 0

\* base^exponent by repeated multiplication (for a result below 2^31)
RECURSIVE PowRef(_, _)
PowRef(base, exponent) ==
    IF exponent = 0 THEN 1 ELSE base * PowRef(base, exponent - 1)

\* (base^exponent) mod modulus by repeated multiplication, reduced after
\* every multiplication
RECURSIVE PowModRef(_, _, _)
PowModRef(base, exponent, modulus) ==
    IF exponent = 0
    THEN 1 % modulus
    ELSE (base * PowModRef(base, exponent - 1, modulus)) % modulus

(***************************************************************************)
(* Claims about the primitives (Spec).                                     *)
(***************************************************************************)
\* C2: for base >= 0, exponent >= 0 and modulus > 0, modularExponentiation
\* returns (base^exponent) mod modulus as repeated multiplication gives it
\* (base^0 = 1), 0 for modulus 1 included.
C2_ModExpMatchesNaive ==
    (fn = "modularExponentiation" /\ args[1] >= 0 /\ args[2] >= 0 /\ args[3] > 0)
    => /\ ret = Return(PowModRef(args[1], args[2], args[3]))
       /\ args[1] <= 4 => ret = Return(PowRef(args[1], args[2]) % args[3])
       /\ args[3] = 1 => ret = Return(0)

C2_Witness ==
    /\ fn = "modularExponentiation"
    /\ args = <<3, 5, 7>>
    /\ ret = Return(5)

\* C3 as stated: for positive e, phi with gcd(e, phi) = 1, modularInverse
\* returns d with 0 <= d < phi and (e * d) mod phi = 1.
C3_InverseTimesEIsOne ==
    (fn = "modularInverse" /\ args[1] > 0 /\ args[2] > 0
        /\ GcdRef(args[1], args[2]) = 1)
    => /\ ret.kind = "return"
       /\ ~ret.value.null
       /\ 0 <= ret.value.value /\ ret.value.value < args[2]
       /\ (args[1] * ret.value.value) % args[2] = 1

\* C3 as amended: for positive e, phi with gcd(e, phi) = 1, modularInverse
\* returns d with 0 <= d < phi and (e * d) mod phi = 1 mod phi: the product
\* is 1 modulo phi for phi >= 2, and for phi = 1 the result is d = 0.
C3_InverseTimesEIsOneModPhi ==
    (fn = "modularInverse" /\ args[1] > 0 /\ args[2] > 0
        /\ GcdRef(args[1], args[2]) = 1)
    => /\ ret.kind = "return"
       /\ ~ret.value.null
       /\ 0 <= ret.value.value /\ ret.value.value < args[2]
       /\ (args[1] * ret.value.value) % args[2] = 1 % args[2]
       /\ args[2] >= 2 => (args[1] * ret.value.value) % args[2] = 1
       /\ args[2] = 1 => ret.value.value = 0

\* a coprime pair whose Bezout coefficient is negative, so that the result
\* is the normalised one
C3_Witness ==
    /\ fn = "modularInverse"
    /\ args[1] > 0 /\ args[2] > 1
    /\ GcdRef(args[1], args[2]) = 1
    /\ extendedGcd(args[1], args[2])[2] < 0
    /\ ret.kind = "return" /\ ~ret.value.null
    /\ ret.value.value = extendedGcd(args[1], args[2])[2] + args[2]

\* C4: for e, phi >= 0 with gcd(e, phi) # 1, modularInverse returns null,
\* never a number.
C4_NoInverseWhenNotCoprime ==
    (fn = "modularInverse" /\ args[1] >= 0 /\ args[2] >= 0
        /\ GcdRef(args[1], args[2]) # 1)
    => ret = Return(Null)

C4_Witness ==
    /\ fn = "modularInverse"
    /\ args = <<4, 6>>
    /\ ret = Return(Null)

\* C5: isPrime(n) is true exactly when n >= 2 and no d with 1 < d < n
\* divides n; false for every n <= 1, true for 2, 3, 5, 7, 11, 97, false for
\* 1, 4, 6, 8, 9, 100.
C5_IsPrimeMatchesDefinition ==
    fn = "isPrime"
    => /\ ret = Return(IsPrimeRef(args[1]))
       /\ args[1] <= 1 => ret = Return(FALSE)
       /\ args[1] \in {2, 3, 5, 7, 11, 97} => ret = Return(TRUE)
       /\ args[1] \in {1, 4, 6, 8, 9, 100} => ret = Return(FALSE)

C5_Witness ==
    /\ fn = "isPrime"
    /\ args = <<97>>
    /\ ret = Return(TRUE)

(***************************************************************************)
(* Claims about key derivation and the round trip (PipelineSpec).          *)
(***************************************************************************)
\* generateRSAKeys(argP, argQ) has run
Derived == stage # "input"

\* it returned a keypair
KeysReturned == Derived /\ ~keygen.result.null

\* it returned null
NoKeys == Derived /\ keygen.result.null

\* C1: for distinct primes p, q with gcd(65537, (p-1)(q-1)) = 1 and a message
\* whose character codes are all below p * q, decrypting the encryption of
\* the message under the keypair of p, q gives the message back.
C1_RoundTrip ==
    (/\ stage = "decrypted"
     /\ IsSmallPrimeRef(argP) /\ IsSmallPrimeRef(argQ) /\ argP # argQ
     /\ CoprimeRef(65537, (argP - 1) * (argQ - 1))
     /\ \A i \in 1..Len(argMessage) : argMessage[i] < argP * argQ)
    => dec = Return([decrypted |-> argMessage, steps |-> dec.value.steps])

\* C6: a returned keypair has n = p * q, phi = (p - 1) * (q - 1), e = 65537
\* and the arguments as p and q; p = 11, q = 13 give n = 143 and phi = 120.
C6_KeypairFields ==
    /\ KeysReturned
       => LET keys == keygen.result.value
          IN  /\ keys.p = argP /\ keys.q = argQ
              /\ keys.n = argP * argQ
              /\ keys.phi = (argP - 1) * (argQ - 1)
              /\ keys.e = 65537
    /\ (Derived /\ argP = 11 /\ argQ = 13)
       => /\ KeysReturned
          /\ keygen.result.value.n = 143
          /\ keygen.result.value.phi = 120

C6_Witness ==
    /\ stage = "keys"
    /\ argP = 11 /\ argQ = 13
    /\ keygen.result.value.n = 143
    /\ keygen.result.value.phi = 120

\* C7: a returned keypair has gcd(e, phi) = 1, (e * d) mod phi = 1 and
\* 0 < d < phi.
C7_KeypairIdentities ==
    KeysReturned
    => LET keys == keygen.result.value
       IN  /\ CoprimeRef(keys.e, keys.phi)
           /\ 0 < keys.d /\ keys.d < keys.phi
           /\ MulModNat(keys.e, keys.d, keys.phi) = 1

C7_Witness ==
    /\ stage = "keys"
    /\ argP = 11 /\ argQ = 13
    /\ keygen.result.value.d = 113
    /\ (65537 % 120) * 113 % 120 = 1

\* C8 as stated: a returned keypair has p and q both prime and p # q, and
\* generateRSAKeys returns no keypair for p = q.
C8_PrimeAndDistinct ==
    /\ KeysReturned
       => /\ IsSmallPrimeRef(keygen.result.value.p)
          /\ IsSmallPrimeRef(keygen.result.value.q)
          /\ keygen.result.value.p # keygen.result.value.q
    /\ (Derived /\ argP = argQ) => NoKeys

\* C8 as amended: a returned keypair has p and q both prime; generateRSAKeys
\* does not compare p with q: for p = q it returns a keypair whenever p is
\* a prime other than 2 and 65537 does not divide p - 1.
C8_PrimeNotNecessarilyDistinct ==
    /\ KeysReturned
       => /\ IsSmallPrimeRef(keygen.result.value.p)
          /\ IsSmallPrimeRef(keygen.result.value.q)
    /\ (Derived /\ argP = argQ /\ IsSmallPrimeRef(argP) /\ argP # 2
            /\ (argP - 1) % 65537 # 0)
       => /\ KeysReturned
          /\ keygen.result.value.p = keygen.result.value.q

C8_Witness ==
    /\ stage = "keys"
    /\ argP = 3 /\ argQ = 3
    /\ keygen.result.value.p = 3 /\ keygen.result.value.q = 3
    /\ keygen.result.value.n = 9

\* C9: when p or q is not prime, generateRSAKeys returns null, and it does
\* so before computing n, phi or d.
C9_NotPrimeFailsFirst ==
    (Derived /\ (~IsSmallPrimeRef(argP) \/ ~IsSmallPrimeRef(argQ)))
    => /\ keygen.result.null
       /\ keygen.computed = {}
       /\ keygen.steps = <<"Error: Both p and q must be prime numbers">>

C9_Witness ==
    /\ stage = "failed"
    /\ argP = 7 /\ argQ = 6
    /\ keygen.result.null
    /\ keygen.computed = {}

\* C10: for primes p, q, generateRSAKeys returns no keypair whenever
\* gcd(65537, (p-1)(q-1)) # 1, and a returned keypair never has another
\* public exponent; for p = 3, q = 11 it fails exactly if gcd(65537, 20) # 1.
C10_NonCoprimeExponentFails ==
    (Derived /\ IsSmallPrimeRef(argP) /\ IsSmallPrimeRef(argQ))
    => /\ ~CoprimeRef(65537, (argP - 1) * (argQ - 1)) => keygen.result.null
       /\ ~keygen.result.null => keygen.result.value.e = 65537
       /\ (argP = 3 /\ argQ = 11)
          => (keygen.result.null <=> ~CoprimeRef(65537, 20))

\* 917519 - 1 = 14 * 65537
C10_Witness ==
    /\ stage = "failed"
    /\ argP = 917519 /\ argQ = 2
    /\ ~CoprimeRef(65537, 917518)
    /\ keygen.result.null
    /\ keygen.computed = {"n", "phi", "e"}

\* C11: when generateRSAKeys fails, the narration steps recorded up to and
\* including the error step are delivered to the caller together with the
\* failure indicator.
C11_FailureDeliversSteps ==
    NoKeys => deliveredSteps(keygen.result) = keygen.steps

\* C12: a failed call of generateRSAKeys reports which of the three reasons
\* caused it: two failed calls with different reasons return different
\* values to the caller.
C12_FailureReasonReported ==
    NoKeys =>
        \A p2 \in PInputs, q2 \in PInputs :
            (p2 <= 65536 \/ q2 <= 65536) =>
                LET other == generateRSAKeysRun(p2, q2)
                IN  (other.result.null /\ failureReason(other) # failureReason(keygen))
                        => other.result # keygen.result

\* C13: a successful call of generateRSAKeys returns exactly six narration
\* steps, in the order prime validation, n, phi, choice of e, computation of
\* d, verification, each showing the values of the returned keypair.
C13_SixStepsInOrder ==
    KeysReturned =>
        LET k == keygen.result.value
            P == ToString(k.p)
            Q == ToString(k.q)
            N == ToString(k.n)
            PHI == ToString(k.phi)
            EE == ToString(k.e)
            D == ToString(k.d)
        IN  /\ Len(k.steps) = 6
            /\ k.steps[1] = "Prime validation: p = " \o P \o ", q = " \o Q
            /\ k.steps[2] = "Calculate n = p x q = " \o P \o " x " \o Q \o " = " \o N
            /\ k.steps[3] = "Calculate phi(n) = (p-1) x (q-1) = " \o ToString(k.p - 1)
                            \o " x " \o ToString(k.q - 1) \o " = " \o PHI
            /\ k.steps[4] = "Choose e = " \o EE \o ", verify gcd(" \o EE \o ", "
                            \o PHI \o ") = 1"
            /\ k.steps[5] = "Calculate d == e^-1 (mod phi(n)) = " \o D
            /\ k.steps[6] = "Verification: " \o EE \o " x " \o D \o " == 1 (mod "
                            \o PHI \o ")"

C13_Witness ==
    /\ stage = "keys"
    /\ argP = 11
    /\ argQ = 13
    /\ Len(keygen.result.value.steps) = 6
    /\ keygen.result.value.steps[6] = "Verification: 65537 x 113 == 1 (mod 120)"

(***************************************************************************)
(* Claims about validation, the codec and Euclid's algorithms (Spec).      *)
(***************************************************************************)
\* C14: validateMessage(message, n) is true exactly when every character code
\* of stringToBigIntArray(message) is strictly below n: true for the empty
\* message, false for every non-empty message when n <= 0.
C14_ValidateIffAllCodesBelowN ==
    fn = "validateMessage"
    => LET message == args[1]
           n       == args[2]
           codes   == stringToBigIntArray(message)
       IN  /\ ret.value = TRUE <=> ~(\E i \in DOMAIN codes : codes[i] >= n)
           /\ message = <<>> => ret = Return(TRUE)
           /\ (n <= 0 /\ message # <<>>) => ret = Return(FALSE)

\* a message whose only code equals n
C14_Witness ==
    /\ fn = "validateMessage"
    /\ args = <<(<<5>>), 5>>
    /\ ret = Return(FALSE)

\* C15: the ciphertext of rsaEncrypt(message, e, n) has exactly one element
\* per character of the message, in message order, element i being
\* modularExponentiation(code_i, e, n); for n >= 1 every element is in
\* [0, n), and equal characters give equal ciphertext values.
C15_OneElementPerCharacter ==
    (fn = "rsaEncrypt" /\ ret.kind = "return")
    => LET message    == args[1]
           e          == args[2]
           n          == args[3]
           ciphertext == ret.value.ciphertext
       IN  /\ Len(ciphertext) = Len(message)
           /\ \A i \in 1..Len(message) :
                 /\ ciphertext[i] = modularExponentiation(message[i], e, n)
                 /\ n >= 1 => (0 <= ciphertext[i] /\ ciphertext[i] < n)
           /\ \A i, j \in 1..Len(message) :
                 message[i] = message[j] => ciphertext[i] = ciphertext[j]

\* C16: for every string s of 16-bit code units,
\* bigIntArrayToString(stringToBigIntArray(s)) = s, and stringToBigIntArray(s)
\* has one code per code unit of s, in order.
C16_CodecRoundTrip ==
    fn = "stringToBigIntArray"
    => LET s     == args[1]
           codes == ret.value
       IN  /\ Len(codes) = Len(s)
           /\ \A i \in 1..Len(s) : codes[i] = s[i]
           /\ bigIntArrayToString(codes) = s

\* C17: for non-negative a and m, extendedGcd(a, m) returns (g, x, y) with
\* a*x + m*y = g and g the greatest common divisor of a and m; for a = 0 the
\* result is exactly (m, 0, 1).
C17_Bezout ==
    (fn = "extendedGcd" /\ args[1] >= 0 /\ args[2] >= 0)
    => LET a == args[1]
           m == args[2]
           g == ret.value[1]
           x == ret.value[2]
           y == ret.value[3]
       IN  /\ a * x + m * y = g
           /\ g = GcdRef(a, m)
           /\ a = 0 => ret = Return(<<m, 0, 1>>)

\* 5 * 5 + 12 * (-2) = 1
C17_Witness ==
    /\ fn = "extendedGcd"
    /\ args = <<5, 12>>
    /\ ret = Return(<<1, 5, -2>>)

\* C18 as stated: for all integers a and b of the range, gcd(a, b) is the
\* non-negative greatest common divisor of a and b, and gcd(0, b) = b.
C18_GcdNonNegative ==
    fn = "gcd"
    => /\ ret.value >= 0
       /\ ret.value = GcdRef(Abs(args[1]), Abs(args[2]))
       /\ args[1] = 0 => ret.value = args[2]

\* C18 as amended: for all non-negative a and b of the range, gcd(a, b) is
\* the non-negative greatest common divisor of a and b, and gcd(0, b) = b;
\* with a negative argument the result may be negative, and its absolute
\* value is the greatest common divisor of |a| and |b|.
C18_GcdUpToSign ==
    fn = "gcd"
    => /\ (args[1] >= 0 /\ args[2] >= 0)
            => (ret.value >= 0 /\ ret.value = GcdRef(args[1], args[2]))
       /\ Abs(ret.value) = GcdRef(Abs(args[1]), Abs(args[2]))
       /\ args[1] = 0 => ret.value = args[2]

\* a negative result
C18_Witness ==
    /\ fn = "gcd"
    /\ args = <<6, -3>>
    /\ ret = Return(-3)

\* C20: every call of a primitive on non-negative integer inputs terminates
\* and returns a value.
C20_EveryCallReturns ==
    (fn # "none" /\ \A i \in DOMAIN args : args[i] \in Int => args[i] >= 0)
    => ret.kind = "return"

(***************************************************************************)
(* Claims about the failure branches of key derivation.                    *)
(***************************************************************************)
\* C21: for all p, q that pass the primality check and the gcd(65537, phi) = 1
\* check, the modular-inverse step of generateRSAKeys succeeds: the 'Cannot
\* compute modular inverse' branch is never taken and a keypair is returned.
C21_InverseBranchNeverTaken ==
    (Derived /\ isPrime(argP) /\ isPrime(argQ)
        /\ gcd(E, eulerTotient(argP, argQ)) = 1)
    => /\ KeysReturned
       /\ failureReason(keygen) # "NoModularInverse" \/ ~keygen.result.null

\* C22 as stated: there are distinct primes p, q of the small range (both of
\* the suggestion table, or with (p-1)(q-1) < 65537) for which
\* gcd(65537, (p-1)(q-1)) # 1 and generateRSAKeys returns no keypair.
C22_SomeSmallPairFails ==
    Derived =>
        \E a \in SmallInputs, b \in SmallInputs :
            /\ a # b /\ isPrime(a) /\ isPrime(b)
            /\ (a - 1) * (b - 1) < E
            /\ gcd(E, (a - 1) * (b - 1)) # 1
            /\ generateRSAKeys(a, b).null

\* C22 as amended: for all distinct primes p, q of the small range (both of
\* the suggestion table, or with (p-1)(q-1) < 65537),
\* gcd(65537, (p-1)(q-1)) = 1 and generateRSAKeys returns a keypair.
C22_NoSmallPairFails ==
    (Derived /\ argP # argQ /\ isPrime(argP) /\ isPrime(argQ)
        /\ (argP - 1) * (argQ - 1) < 65537)
    => /\ gcd(65537, (argP - 1) * (argQ - 1)) = 1
       /\ CoprimeRef(65537, (argP - 1) * (argQ - 1))
       /\ KeysReturned

\* the last two primes of the table
C22_Witness ==
    /\ Derived
    /\ argP = primes[Len(primes)]
    /\ argQ = primes[Len(primes) - 1]
    /\ KeysReturned
    /\ keygen.result.value.n = 2021

(***************************************************************************)
(* Claims about the unguarded pipeline.                                    *)
(***************************************************************************)
\* the keypair comes from distinct primes and some code of the message is
\* not below n
WrappingCase ==
    /\ KeysReturned
    /\ argP # argQ
    /\ \E i \in DOMAIN stringToBigIntArray(argMessage) :
          stringToBigIntArray(argMessage)[i] >= keygen.result.value.n

\* C23: rsaEncrypt performs no validation: for a keypair from distinct primes
\* and a message containing a character code m >= n, rsaEncrypt returns a
\* ciphertext without any error, and decrypting it yields the wrapped code
\* m mod n instead of m, so that the round trip loses the character.
C23_EncryptWrapsSilently ==
    WrappingCase =>
        LET n     == keygen.result.value.n
            codes == stringToBigIntArray(argMessage)
        IN  /\ stage # "failed"
            /\ stage \in {"encrypted", "decrypted"} =>
                  /\ enc.kind = "return"
                  /\ Len(enc.value.ciphertext) = Len(codes)
            /\ stage = "decrypted" =>
                  /\ dec.kind = "return"
                  /\ Len(dec.value.decrypted) = Len(codes)
                  /\ \A i \in DOMAIN codes :
                        /\ dec.value.decrypted[i] = codes[i] % n
                        /\ codes[i] >= n => dec.value.decrypted[i] # codes[i]
                  /\ dec.value.decrypted # argMessage

\* 'H' (72) under n = 15 comes back as 12
C23_Witness ==
    /\ stage = "decrypted"
    /\ argP = 3
    /\ argQ = 5
    /\ argMessage = <<72>>
    /\ enc.kind = "return"
    /\ dec = Return(rsaDecrypt(enc.value.ciphertext, keygen.result.value.d, 15))
    /\ dec.value.decrypted = <<12>>

\* C24: for every modulus n <= 1 (n = 1, n = 0 and negative n) and every
\* non-empty message, rsaEncrypt and rsaDecrypt run to completion and return
\* a result: modularExponentiation raises no error.
C24_DegenerateModulusReturns ==
    (fn \in {"rsaEncrypt", "rsaDecrypt"} /\ args[3] <= 1 /\ args[1] # <<>>)
    => ret.kind = "return"

(***************************************************************************)
(* Claims about the RSADemo component (DemoSpec, DemoLiveSpec).            *)
(***************************************************************************)
\* some code of the message is not below the n of the stored keypair
MessageTooLarge ==
    /\ ~keyPair.null
    /\ \E i \in DOMAIN stringToBigIntArray(messageText) :
          stringToBigIntArray(messageText)[i] >= keyPair.value.n

\* C25: encryptMessage invokes rsaEncrypt only when validateMessage(message,
\* keyPair.n) is true; when the message contains a character code >= n,
\* rsaEncrypt is not called and encryptionResult, decryptionResult, keyPair
\* and currentStep are left unchanged.
C25_EncryptOnlyValidated ==
    [][encryptMessage =>
          /\ MessageTooLarge =>
                UNCHANGED <<encryptionResult, encryptedFrom, decryptionResult,
                            keyPair, currentStep>>
          /\ ~MessageTooLarge =>
                /\ encryptionResult' =
                      NonNull(rsaEncrypt(messageText, keyPair.value.e, keyPair.value.n))
                /\ encryptedFrom' = messageText]_vars

\* "H" (72) with the keypair of 3 and 11 (n = 33): nothing was stored
C25_Witness ==
    /\ ~keyPair.null
    /\ keyPair.value.n = 33
    /\ messageText = <<72>>
    /\ ~afterReset
    /\ encryptionResult = Null
    /\ currentStep = "keys"

\* C26: in every reachable state of RSADemo a non-null keyPair has p and q
\* both prime and p # q: generateKeys derives the keypair from the p, q that
\* validatePrimes accepted in the same click (also when the fields were
\* edited during the delay), and generateRSAKeys never rejects as non-prime a
\* pair that validatePrimes accepted.
C26_KeyPairFromValidatedPrimes ==
    /\ [](~keyPair.null =>
             /\ IsSmallPrimeRef(keyPair.value.p)
             /\ IsSmallPrimeRef(keyPair.value.q)
             /\ keyPair.value.p # keyPair.value.q)
    /\ [][(~pending.null /\ pending' = Null /\ generateKeysResume) =>
             LET pv  == BigIntOf(pending.value.p)
                 qv  == BigIntOf(pending.value.q)
                 run == generateRSAKeysRun(pv, qv)
             IN  /\ ~(run.result.null /\ failureReason(run) = "NotPrime")
                 /\ ~run.result.null => keyPair' = run.result
                 /\ run.result.null => keyPair' = keyPair]_vars

\* the keypair of 11 and 13 while the field of q reads 4
C26_Witness ==
    /\ ~keyPair.null
    /\ keyPair.value.p = 11
    /\ keyPair.value.q = 13
    /\ qText = <<4>>
    /\ pending = Null
    /\ encryptionResult = Null

\* C27: whenever decryptMessage stores a decryptionResult, its decrypted text
\* equals the message from which the stored encryptionResult was produced,
\* for every order of the user's actions.
C27_DecryptedIsEncryptedMessage ==
    [][(~encryptionResult.null /\ ~keyPair.null /\ decryptMessage) =>
          /\ ~decryptionResult'.null
          /\ decryptionResult'.value.decrypted = encryptedFrom]_vars

\* C28: after resetDemo runs, p, q and message are empty, keyPair,
\* encryptionResult and decryptionResult are null and currentStep is 'input',
\* and they stay so until the next user input or button click, also when a
\* generateKeys call was waiting in its delay at the moment of the reset.
C28_ResetStateStays ==
    afterReset =>
        /\ pText = <<>> /\ qText = <<>> /\ messageText = <<>>
        /\ keyPair = Null /\ encryptionResult = Null /\ decryptionResult = Null
        /\ currentStep = "input"

\* C30: in every reachable state of RSADemo, currentStep = 'keys' implies
\* keyPair is non-null, 'encrypt' implies keyPair and encryptionResult are
\* non-null, 'complete' implies keyPair, encryptionResult and
\* decryptionResult are non-null, and currentStep is never 'decrypt'.
C30_StepImpliesResults ==
    /\ currentStep \in {"input", "keys", "encrypt", "complete"}
    /\ currentStep = "keys" => ~keyPair.null
    /\ currentStep = "encrypt" => (~keyPair.null /\ ~encryptionResult.null)
    /\ currentStep = "complete" =>
          (~keyPair.null /\ ~encryptionResult.null /\ ~decryptionResult.null)

\* a resumed generateKeys call brought 'keys' back after a reset
C30_Witness ==
    /\ afterReset
    /\ currentStep = "keys"
    /\ ~keyPair.null
    /\ pText = <<>>
    /\ encryptionResult = Null

\* C29: every generateKeys call that passes validatePrimes sets isGenerating
\* to true and eventually sets it back to false, whether generateRSAKeys
\* returns a keypair or null; a call rejected by validatePrimes never sets
\* isGenerating and changes neither keyPair nor currentStep.
C29_IsGeneratingCleared ==
    /\ [][(~isGenerating /\ pText # <<>> /\ qText # <<>> /\ generateKeys) =>
             IF validatePrimes(pText, qText)
             THEN isGenerating'
             ELSE UNCHANGED <<isGenerating, keyPair, currentStep>>]_vars
    /\ isGenerating ~> ~isGenerating

\* the call for 917519 and 11, for which generateRSAKeys returns null, is
\* waiting in its delay
C29_Witness ==
    /\ isGenerating
    /\ ~pending.null
    /\ pending.value = [p |-> <<9, 1, 7, 5, 1, 9>>, q |-> <<1, 1>>]
    /\ generateRSAKeys(917519, 11).null

====
